---- MODULE Spec2Model ----
(***************************************************************************)
(* Model of mlx_downloader.py: the Hugging Face cache directory as the     *)
(* only persistent state, the status classifier get_model_status, the two  *)
(* mutators clean_incomplete_model and remove_model, the orchestration     *)
(* download_model with its external collaborators snapshot_download (the   *)
(* Fetcher) and load (the Loader), and the directory-name codec.           *)
(*                                                                         *)
(* Python strings are sequences of one-character strings, so that replace, *)
(* split, join, startswith and the "*.incomplete" glob are computed.       *)
(***************************************************************************)
EXTENDS Integers, Sequences, FiniteSets, TLC

VARIABLES root, pc, dl, last, codec

vars == <<root, pc, dl, last, codec>>

(***************************************************************************)
(* Bounds of the model.                                                    *)
(***************************************************************************)
\* Most files a blobs directory holds at once.
MaxBlobs == 2
\* Longest organization and longest name fed to the codec.
MaxLen == 3

(***************************************************************************)
(* Python string primitives.                                               *)
(***************************************************************************)
\* s.startswith(p)
StartsWith(s, p) ==
    /\ Len(p) <= Len(s)
    /\ SubSeq(s, 1, Len(p)) = p

\* s.endswith(p): what the glob pattern "*" + p asks of a file name.
EndsWith(s, p) ==
    /\ Len(p) <= Len(s)
    /\ SubSeq(s, Len(s) - Len(p) + 1, Len(s)) = p

\* s.replace(c, r) for a one-character c.
RECURSIVE Replace(_, _, _)
Replace(s, c, r) ==
    IF s = <<>> THEN <<>>
    ELSE IF Head(s) = c THEN r \o Replace(Tail(s), c, r)
    ELSE <<Head(s)>> \o Replace(Tail(s), c, r)

\* s.split(sep), sep non-empty: leftmost, non-overlapping occurrences.
RECURSIVE SplitAcc(_, _, _, _)
SplitAcc(s, sep, cur, acc) ==
    IF s = <<>> THEN Append(acc, cur)
    ELSE IF StartsWith(s, sep)
         THEN SplitAcc(SubSeq(s, Len(sep) + 1, Len(s)), sep, <<>>, Append(acc, cur))
         ELSE SplitAcc(Tail(s), sep, Append(cur, Head(s)), acc)

Split(s, sep) == SplitAcc(s, sep, <<>>, <<>>)

\* sep.join(parts)
RECURSIVE Join(_, _)
Join(parts, sep) ==
    IF parts = <<>> THEN <<>>
    ELSE IF Len(parts) = 1 THEN parts[1]
    ELSE parts[1] \o sep \o Join(Tail(parts), sep)

(***************************************************************************)
(* The directory-name codec.                                               *)
(***************************************************************************)
Slash == <<"/">>
Dash == <<"-">>
DashDash == <<"-", "-">>
\* "models--"
Prefix == <<"m", "o", "d", "e", "l", "s", "-", "-">>
\* dir_name[8:]
PrefixLen == 8
\* the suffix of the glob "*.incomplete"
Marker == <<".", "i", "n", "c", "o", "m", "p", "l", "e", "t", "e">>

\* What discovery yields for an entry that is no model directory.
NotAModel == <<"?">>

\* model_dir_name = f"models--{model_name.replace('/', '--')}"
Encode(model_name) == Prefix \o Replace(model_name, "/", DashDash)

\* A decoder that splits on every dash instead of on "--".
DecodeSplitDash(dir_name) ==
    IF StartsWith(dir_name, Prefix)
    THEN LET rest == SubSeq(dir_name, PrefixLen + 1, Len(dir_name))
             parts == Split(rest, Dash)
         IN  IF Len(parts) >= 2
             THEN parts[1] \o Slash \o Join(Tail(parts), Dash)
             ELSE NotAModel
    ELSE NotAModel

\* The decoder slicing one character too few off the directory name.
DecodeSliceShort(dir_name) ==
    IF StartsWith(dir_name, Prefix)
    THEN LET rest == SubSeq(dir_name, PrefixLen, Len(dir_name))
             parts == Split(rest, DashDash)
         IN  IF Len(parts) >= 2
             THEN parts[1] \o Slash \o Join(Tail(parts), Dash)
             ELSE NotAModel
    ELSE NotAModel

\* The decoder of discover_local_models, for one directory name.
Decode(dir_name) ==
    IF StartsWith(dir_name, Prefix)
    THEN LET rest == SubSeq(dir_name, PrefixLen + 1, Len(dir_name))
             parts == Split(rest, DashDash)
         IN  IF Len(parts) >= 2
             THEN parts[1] \o Slash \o Join(Tail(parts), Dash)
             ELSE NotAModel
    ELSE NotAModel

(***************************************************************************)
(* The cache directory.                                                    *)
(***************************************************************************)
\* "acme/Foo-7B" and "acme/Bar": the identifiers the operations are given.
FooId == <<"a", "c", "m", "e", "/", "F", "o", "o", "-", "7", "B">>
BarId == <<"a", "c", "m", "e", "/", "B", "a", "r">>
ModelIds == {FooId, BarId}

\* The names an entry of the cache directory can have.
RootNames == {Encode(id) : id \in ModelIds}

\* "abc123", "abc123.incomplete", "def456.incomplete"
BlobPlain == <<"a", "b", "c", "1", "2", "3">>
BlobPartA == BlobPlain \o Marker
BlobPartB == <<"d", "e", "f", "4", "5", "6">> \o Marker
BlobNames == {BlobPlain, BlobPartA, BlobPartB}
\* "main": the one entry a snapshots directory can hold.
SnapNames == {<<"m", "a", "i", "n">>}

\* An entry of the cache directory: nothing, a plain file, or a directory
\* with an optional blobs and an optional snapshots subdirectory.
Absent == [kind |-> "absent", hasBlobs |-> FALSE, blobs |-> {},
           hasSnaps |-> FALSE, snaps |-> {}]
PlainFile == [kind |-> "file", hasBlobs |-> FALSE, blobs |-> {},
              hasSnaps |-> FALSE, snaps |-> {}]
Dirs ==
    { [kind |-> "dir", hasBlobs |-> hb, blobs |-> bs, hasSnaps |-> hs, snaps |-> ss] :
        hb \in BOOLEAN, hs \in BOOLEAN,
        bs \in {b \in SUBSET BlobNames : Cardinality(b) <= MaxBlobs},
        ss \in SUBSET SnapNames }
Entries ==
    {Absent, PlainFile} \cup
    {d \in Dirs : (~d.hasBlobs => d.blobs = {}) /\ (~d.hasSnaps => d.snaps = {})}

\* Encode, computed once for each identifier the operations are given.
DirNameOf == [id \in ModelIds |-> Encode(id)]
DirName(model_name) ==
    IF model_name \in ModelIds THEN DirNameOf[model_name] ELSE Encode(model_name)

\* cache_path / model_dir_name
ModelPath(fs, model_name) ==
    LET key == DirName(model_name)
    IN  IF key \in DOMAIN fs THEN fs[key] ELSE Absent

(***************************************************************************)
(* get_model_status                                                        *)
(***************************************************************************)
\* The glob with the pattern "*": every blob counts as partial.
IncompleteFilesAll(entry) == entry.blobs

\* blobs_path.glob("*.incomplete")
PartialNames == {b \in BlobNames : EndsWith(b, Marker)}
IncompleteFiles(entry) == entry.blobs \cap PartialNames

\* The classifier with the snapshots test ahead of the incomplete test.
GetModelStatusSnapshotsFirst(fs, model_name) ==
    LET model_path == ModelPath(fs, model_name)
        incomplete_files == IncompleteFiles(model_path)
    IN  IF model_path.kind = "absent"
        THEN [status |-> "not_downloaded", files |-> {}]
        ELSE IF ~model_path.hasBlobs
        THEN [status |-> "no_blobs", files |-> {}]
        ELSE IF model_path.hasSnaps /\ model_path.snaps # {}
        THEN [status |-> "complete", files |-> model_path.blobs]
        ELSE IF incomplete_files # {}
        THEN [status |-> "incomplete", files |-> incomplete_files]
        ELSE [status |-> "unknown", files |-> model_path.blobs]

\* (status, files) as returned; the returned path is ModelPath.
GetModelStatus(fs, model_name) ==
    LET model_path == ModelPath(fs, model_name)
        incomplete_files == IncompleteFiles(model_path)
        all_files == model_path.blobs
    IN  IF model_path.kind = "absent"
        THEN [status |-> "not_downloaded", files |-> {}]
        ELSE IF ~model_path.hasBlobs
        THEN [status |-> "no_blobs", files |-> {}]
        ELSE IF incomplete_files # {}
        THEN [status |-> "incomplete", files |-> incomplete_files]
        ELSE IF model_path.hasSnaps /\ model_path.snaps # {}
        THEN [status |-> "complete", files |-> all_files]
        ELSE [status |-> "unknown", files |-> all_files]

(***************************************************************************)
(* clean_incomplete_model                                                  *)
(***************************************************************************)
\* The order in which the list made from a glob is walked.
RECURSIVE SeqOf(_)
SeqOf(S) ==
    IF S = {} THEN <<>>
    ELSE LET x == CHOOSE y \in S : TRUE IN <<x>> \o SeqOf(S \ {x})

\* The loop with the try outside it: the first failing unlink ends the walk.
RECURSIVE UnlinkLoopAbort(_, _)
UnlinkLoopAbort(todo, failing) ==
    IF todo = <<>> THEN [removed |-> {}, failed |-> {}]
    ELSE IF Head(todo) \in failing
         THEN [removed |-> {}, failed |-> {Head(todo)}]
         ELSE LET rest == UnlinkLoopAbort(Tail(todo), failing)
              IN  [rest EXCEPT !.removed = @ \cup {Head(todo)}]

\* for file_path in incomplete_files: try: file_path.unlink() except: print.
\* failing is the set of files whose unlink raises.
RECURSIVE UnlinkLoop(_, _)
UnlinkLoop(todo, failing) ==
    IF todo = <<>> THEN [removed |-> {}, failed |-> {}]
    ELSE LET rest == UnlinkLoop(Tail(todo), failing)
         IN  IF Head(todo) \in failing
             THEN [rest EXCEPT !.failed = @ \cup {Head(todo)}]
             ELSE [rest EXCEPT !.removed = @ \cup {Head(todo)}]

\* clean_incomplete_model returning the number of files it removed.
CleanReturnCount(status, removed) ==
    Cardinality(removed)

\* What clean_incomplete_model returns: True on the incomplete branch,
\* False on the other two; Python's True is the integer 1, False is 0.
CleanReturn(status, removed) ==
    IF status = "incomplete" THEN 1 ELSE 0

\* incomplete_files = files if status == "incomplete" else []: how the
\* callers of get_model_status read the partial files out of its result.
IncompleteOf(st) == IF st.status = "incomplete" THEN st.files ELSE {}

\* clean_incomplete_model unlinking every blob of an incomplete entry.
CleanIncompleteModelAllBlobs(fs, model_name, failing) ==
    LET st == GetModelStatus(fs, model_name)
        incomplete_files == IncompleteOf(st)
        done == IF st.status = "incomplete"
                THEN UnlinkLoop(SeqOf(ModelPath(fs, model_name).blobs), failing)
                ELSE [removed |-> {}, failed |-> {}]
        key == DirName(model_name)
    IN  [fs |-> IF key \in DOMAIN fs /\ done.removed # {}
                THEN [fs EXCEPT ![key].blobs = @ \ done.removed]
                ELSE fs,
         ret |-> CleanReturn(st.status, done.removed),
         status |-> st.status,
         files |-> incomplete_files,
         removed |-> done.removed,
         failed |-> done.failed]

\* clean_incomplete_model unlinking the files of any status.
CleanIncompleteModelNoGuard(fs, model_name, failing) ==
    LET st == GetModelStatus(fs, model_name)
        done == UnlinkLoop(SeqOf(st.files), failing)
        key == DirName(model_name)
    IN  [fs |-> IF key \in DOMAIN fs /\ done.removed # {}
                THEN [fs EXCEPT ![key].blobs = @ \ done.removed]
                ELSE fs,
         ret |-> CleanReturn(st.status, done.removed),
         status |-> st.status,
         files |-> IncompleteOf(st),
         removed |-> done.removed,
         failed |-> done.failed]

\* clean_incomplete_model removing a blobs directory it has emptied.
CleanIncompleteModelRmdir(fs, model_name, failing) ==
    LET st == GetModelStatus(fs, model_name)
        incomplete_files == IncompleteOf(st)
        done == IF st.status = "incomplete"
                THEN UnlinkLoop(SeqOf(incomplete_files), failing)
                ELSE [removed |-> {}, failed |-> {}]
        key == DirName(model_name)
    IN  [fs |-> IF key \in DOMAIN fs /\ done.removed # {}
                THEN [fs EXCEPT ![key].blobs = @ \ done.removed,
                                ![key].hasBlobs = (fs[key].blobs \ done.removed) # {}]
                ELSE fs,
         ret |-> CleanReturn(st.status, done.removed),
         status |-> st.status,
         files |-> incomplete_files,
         removed |-> done.removed,
         failed |-> done.failed]

\* The whole call: the cache afterwards, what is returned, and what the
\* call saw and did.
CleanIncompleteModel(fs, model_name, failing) ==
    LET st == GetModelStatus(fs, model_name)
        incomplete_files == IncompleteOf(st)
        done == IF st.status = "incomplete"
                THEN UnlinkLoop(SeqOf(incomplete_files), failing)
                ELSE [removed |-> {}, failed |-> {}]
        key == DirName(model_name)
    IN  [fs |-> IF key \in DOMAIN fs /\ done.removed # {}
                THEN [fs EXCEPT ![key].blobs = @ \ done.removed]
                ELSE fs,
         ret |-> CleanReturn(st.status, done.removed),
         status |-> st.status,
         files |-> incomplete_files,
         removed |-> done.removed,
         failed |-> done.failed]

(***************************************************************************)
(* remove_model                                                            *)
(***************************************************************************)
\* What a directory can look like after an rmtree that raised partway:
\* the directory itself is still there, with any part of its content.
Remnants(entry) ==
    {d \in Entries :
        /\ d.kind = "dir"
        /\ d.hasBlobs => entry.hasBlobs
        /\ d.hasSnaps => entry.hasSnaps
        /\ d.blobs \subseteq entry.blobs
        /\ d.snaps \subseteq entry.snaps}

\* shutil.rmtree(model_path): done, or raised. On a plain file it raises
\* at once (not a directory).
RmtreeOutcomes(entry) ==
    IF entry.kind = "dir"
    THEN {[ok |-> TRUE, after |-> Absent]} \cup
         {[ok |-> FALSE, after |-> d] : d \in Remnants(entry)}
    ELSE {[ok |-> FALSE, after |-> entry]}

\* remove_model without its status test, the rmtree ignoring errors.
RemoveModelUnguarded(fs, model_name, outcome) ==
    LET st == GetModelStatus(fs, model_name)
        key == DirName(model_name)
    IN  [fs |-> IF key \in DOMAIN fs THEN [fs EXCEPT ![key] = outcome.after] ELSE fs,
         ret |-> TRUE,
         status |-> st.status]

\* remove_model deleting the blobs directory alone.
RemoveModelBlobsOnly(fs, model_name, outcome) ==
    LET st == GetModelStatus(fs, model_name)
        key == DirName(model_name)
    IN  IF st.status = "not_downloaded"
        THEN [fs |-> fs, ret |-> FALSE, status |-> st.status]
        ELSE [fs |-> [fs EXCEPT ![key].hasBlobs = FALSE, ![key].blobs = {}],
              ret |-> outcome.ok,
              status |-> st.status]

\* The whole call, for the outcome the rmtree has if it is reached.
RemoveModel(fs, model_name, outcome) ==
    LET st == GetModelStatus(fs, model_name)
        key == DirName(model_name)
    IN  IF st.status = "not_downloaded"
        THEN [fs |-> fs, ret |-> FALSE, status |-> st.status]
        ELSE [fs |-> [fs EXCEPT ![key] = outcome.after],
              ret |-> outcome.ok,
              status |-> st.status]

(***************************************************************************)
(* download_model                                                          *)
(***************************************************************************)
\* The except clauses with the one at lines 32-34 returning False.
ExceptHandlerVerifyFatal(site) ==
    CASE site = "load_cached" -> "return_false"
      [] site = "fetch" -> "return_false"
      [] site = "load_fetched" -> "return_false"

\* The except clauses with the one at lines 70-72 not returning False.
ExceptHandlerSwallowVerify(site) ==
    CASE site = "load_cached" -> "fall_through"
      [] site = "fetch" -> "return_false"
      [] site = "load_fetched" -> "return_true"

\* What each except clause of download_model does with a failure of the
\* call it guards: the cached-copy verification falls through to the
\* download, the other two return False.
ExceptHandler(site) ==
    CASE site = "load_cached" -> "fall_through"
      [] site = "fetch" -> "return_false"
      [] site = "load_fetched" -> "return_false"

\* The keyword arguments before any snapshot_download was called.
NoFetch == [resume |-> FALSE, force |-> FALSE]

\* snapshot_download called without passing the caller's force on.
FetchArgsForceDropped(force_redownload) ==
    [resume |-> TRUE, force |-> FALSE]

\* Lines 46-51: resume_download=True, force_download=force_redownload.
FetchArgs(force_redownload) ==
    [resume |-> TRUE, force |-> force_redownload]

\* The locals of a call of download_model, and what it did so far.
DlIdle == [id |-> <<>>, verify |-> FALSE, force |-> FALSE, status |-> "none",
           log |-> <<>>, fetchFailed |-> FALSE, verifyFailed |-> FALSE,
           finalStatus |-> "none", fetchArgs |-> NoFetch]

\* The record of the last finished operation.
NoLast == [op |-> "none", id |-> <<>>, status |-> "none", files |-> {},
           ret |-> 0, removed |-> {}, failed |-> {},
           verify |-> FALSE, force |-> FALSE, log |-> <<>>,
           fetchFailed |-> FALSE, verifyFailed |-> FALSE,
           finalStatus |-> "none", fetchArgs |-> NoFetch,
           models |-> <<>>, printed |-> {}, listing |-> <<>>,
           arg |-> <<>>, asked |-> FALSE, answer |-> <<>>, called |-> FALSE]

\* download_model returns ret (True is 1, False is 0).
Returned(d, ret) ==
    [NoLast EXCEPT !.op = "download", !.id = d.id, !.ret = ret, !.verify = d.verify, !.force = d.force,
                   !.log = d.log, !.fetchFailed = d.fetchFailed,
                   !.verifyFailed = d.verifyFailed,
                   !.finalStatus = d.finalStatus,
                   !.fetchArgs = d.fetchArgs]

\* Line 38 without the clean: the download starts over the partial files.
AfterCachedCheckNoClean(status) ==
    "fetch"

\* Line 38: where the call goes once the cached copy is not accepted.
AfterCachedCheck(status) ==
    IF status = "incomplete" THEN "clean" ELSE "fetch"

\* Lines 19-36 with the verify flag ignored: a complete copy is always
\* loaded before it is accepted.
FirstBranchAlwaysVerify(status, verify, force) ==
    IF status = "complete" /\ ~force
    THEN "load_cached"
    ELSE AfterCachedCheck(status)

\* Lines 19-36: what the first inspection decides.
FirstBranch(status, verify, force) ==
    IF status = "complete" /\ ~force
    THEN IF verify THEN "load_cached" ELSE "return_true"
    ELSE AfterCachedCheck(status)

\* Lines 17-36: the first inspection and the branch on it.
DlStart(id, verify, force) ==
    /\ pc = "idle"
    /\ LET st == GetModelStatus(root, id)
           d == [DlIdle EXCEPT !.id = id, !.verify = verify, !.force = force,
                               !.status = st.status]
           branch == FirstBranch(st.status, verify, force)
       IN  IF branch = "return_true"
           THEN /\ pc' = "idle"
                /\ dl' = DlIdle
                /\ last' = Returned(d, 1)
           ELSE /\ pc' = branch
                /\ dl' = d
                /\ last' = NoLast
    /\ UNCHANGED <<root, codec>>

\* Lines 23-34: load(model_name) on the cached copy.
DlLoadCached ==
    /\ pc = "load_cached"
    /\ \E ok \in BOOLEAN :
        LET d == [dl EXCEPT !.log = Append(@, "load")]
        IN  IF ok
            THEN /\ pc' = "idle"
                 /\ dl' = DlIdle
                 /\ last' = Returned(d, 1)
            ELSE CASE ExceptHandler("load_cached") = "fall_through" ->
                        /\ pc' = AfterCachedCheck(d.status)
                        /\ dl' = d
                        /\ last' = last
                   [] ExceptHandler("load_cached") = "return_false" ->
                        /\ pc' = "idle"
                        /\ dl' = DlIdle
                        /\ last' = Returned(d, 0)
                   [] OTHER ->
                        /\ pc' = "raised"
                        /\ dl' = d
                        /\ last' = last
    /\ UNCHANGED <<root, codec>>

\* Lines 38-40: clean_incomplete_model(model_name), its result unused.
DlClean ==
    /\ pc = "clean"
    /\ \E failing \in SUBSET IncompleteFiles(ModelPath(root, dl.id)) :
        LET r == CleanIncompleteModel(root, dl.id, failing)
        IN  /\ root' = r.fs
            /\ dl' = [dl EXCEPT !.log = Append(@, "clean")]
    /\ pc' = "fetch"
    /\ UNCHANGED <<last, codec>>

\* Lines 44-57 and 74-78: snapshot_download, which leaves the model's
\* directory in any layout whether it returns or raises, then the second
\* inspection, whose result is only printed.
DlFetch ==
    /\ pc = "fetch"
    /\ \E ok \in BOOLEAN, after \in Entries :
        LET fs == [root EXCEPT ![DirName(dl.id)] = after]
            d == [dl EXCEPT !.log = Append(@, "fetch"), !.fetchFailed = ~ok,
                            !.fetchArgs = FetchArgs(dl.force),
                            !.finalStatus = IF ok THEN GetModelStatus(fs, dl.id).status
                                            ELSE "none"]
        IN  /\ root' = fs
            /\ IF ok
               THEN IF d.verify
                    THEN /\ pc' = "load_fetched"
                         /\ dl' = d
                         /\ last' = last
                    ELSE /\ pc' = "idle"
                         /\ dl' = DlIdle
                         /\ last' = Returned(d, 1)
               ELSE CASE ExceptHandler("fetch") = "return_false" ->
                           /\ pc' = "idle"
                           /\ dl' = DlIdle
                           /\ last' = Returned(d, 0)
                      [] OTHER ->
                           /\ pc' = "raised"
                           /\ dl' = d
                           /\ last' = last
    /\ UNCHANGED codec

\* Lines 59-74: load(model_name) on what was just fetched.
DlLoadFetched ==
    /\ pc = "load_fetched"
    /\ \E ok \in BOOLEAN :
        LET d == [dl EXCEPT !.log = Append(@, "load"), !.verifyFailed = ~ok]
        IN  IF ok
            THEN /\ pc' = "idle"
                 /\ dl' = DlIdle
                 /\ last' = Returned(d, 1)
            ELSE CASE ExceptHandler("load_fetched") = "return_false" ->
                        /\ pc' = "idle"
                        /\ dl' = DlIdle
                        /\ last' = Returned(d, 0)
                   [] ExceptHandler("load_fetched") = "return_true" ->
                        /\ pc' = "idle"
                        /\ dl' = DlIdle
                        /\ last' = Returned(d, 1)
                   [] OTHER ->
                        /\ pc' = "raised"
                        /\ dl' = d
                        /\ last' = last
    /\ UNCHANGED <<root, codec>>

(***************************************************************************)
(* One call of each operation from the idle program.                       *)
(***************************************************************************)
CallGetModelStatus(id) ==
    /\ pc = "idle"
    /\ LET st == GetModelStatus(root, id)
       IN  last' = [NoLast EXCEPT !.op = "status", !.id = id,
                                  !.status = st.status, !.files = st.files]
    /\ UNCHANGED <<root, pc, dl, codec>>

CallCleanIncompleteModel(id) ==
    /\ pc = "idle"
    /\ \E failing \in SUBSET IncompleteFiles(ModelPath(root, id)) :
        LET r == CleanIncompleteModel(root, id, failing)
        IN  /\ root' = r.fs
            /\ last' = [NoLast EXCEPT !.op = "clean", !.id = id,
                                      !.status = r.status, !.files = r.files,
                                      !.ret = r.ret, !.removed = r.removed,
                                      !.failed = r.failed]
    /\ UNCHANGED <<pc, dl, codec>>

CallRemoveModel(id) ==
    /\ pc = "idle"
    /\ \E outcome \in RmtreeOutcomes(ModelPath(root, id)) :
        LET r == RemoveModel(root, id, outcome)
        IN  /\ root' = r.fs
            /\ last' = [NoLast EXCEPT !.op = "remove", !.id = id,
                                      !.status = r.status,
                                      !.ret = IF r.ret THEN 1 ELSE 0]
    /\ UNCHANGED <<pc, dl, codec>>

(***************************************************************************)
(* discover_local_models, list_mlx_models and the remove command of main   *)
(***************************************************************************)
\* "models--acme--Foo--7B" (it decodes to "acme/Foo-7B" as well),
\* "models--solo" and "randomdir".
AliasDir == Prefix \o <<"a", "c", "m", "e">> \o DashDash \o <<"F", "o", "o">> \o DashDash \o <<"7", "B">>
SoloDir == Prefix \o <<"s", "o", "l", "o">>
RandomDir == <<"r", "a", "n", "d", "o", "m", "d", "i", "r">>
DiscNames == RootNames \cup {AliasDir, SoloDir, RandomDir}

\* The layouts an entry has where the cache is scanned: nothing, a plain
\* file, an empty directory, a model with one partial file.
EmptyDir == [kind |-> "dir", hasBlobs |-> FALSE, blobs |-> {},
             hasSnaps |-> FALSE, snaps |-> {}]
DiscEntries ==
    {Absent, PlainFile, EmptyDir,
     [kind |-> "dir", hasBlobs |-> TRUE, blobs |-> {BlobPartA},
      hasSnaps |-> FALSE, snaps |-> {}]}

\* Decode, computed once for each name an entry can have.
DecodeOf == [n \in DiscNames |-> Decode(n)]
DecodeName(dir_name) ==
    IF dir_name \in DiscNames THEN DecodeOf[dir_name] ELSE Decode(dir_name)

\* ord(c) for the characters of the identifiers in the cache.
Ord(c) ==
    CASE c = "-" -> 45 [] c = "/" -> 47 [] c = "7" -> 55 [] c = "B" -> 66
      [] c = "F" -> 70 [] c = "a" -> 97 [] c = "c" -> 99 [] c = "e" -> 101
      [] c = "l" -> 108 [] c = "m" -> 109 [] c = "o" -> 111 [] c = "r" -> 114
      [] c = "s" -> 115

\* s < t on str: by the first character that differs, a prefix first.
RECURSIVE StrLess(_, _)
StrLess(s, t) ==
    IF t = <<>> THEN FALSE
    ELSE IF s = <<>> THEN TRUE
    ELSE IF Head(s) = Head(t) THEN StrLess(Tail(s), Tail(t))
    ELSE Ord(Head(s)) < Ord(Head(t))

\* sorted(models)
RECURSIVE InsertSorted(_, _)
InsertSorted(x, sorted) ==
    IF sorted = <<>> THEN <<x>>
    ELSE IF StrLess(x, Head(sorted)) THEN <<x>> \o sorted
    ELSE <<Head(sorted)>> \o InsertSorted(x, Tail(sorted))

RECURSIVE Sorted(_)
Sorted(models) ==
    IF models = <<>> THEN <<>>
    ELSE InsertSorted(Head(models), Sorted(Tail(models)))

\* cache_path.glob("models--*"): the entries matched. The list made from
\* them is sorted before it is returned, so the order in which the
\* directory listing yields them does not show in the result.
GlobModels(fs) ==
    SeqOf({n \in DOMAIN fs : fs[n].kind # "absent" /\ StartsWith(n, Prefix)})

\* for model_dir in cache_path.glob("models--*"): if model_dir.is_dir():
\* ... if len(parts) >= 2: models.append(model_name)
RECURSIVE CollectModels(_, _)
CollectModels(fs, order) ==
    IF order = <<>> THEN <<>>
    ELSE LET dir_name == Head(order)
             rest == CollectModels(fs, Tail(order))
         IN  IF fs[dir_name].kind = "dir" /\ DecodeName(dir_name) # NotAModel
             THEN <<DecodeName(dir_name)>> \o rest
             ELSE rest

\* discover_local_models without the is_dir test.
DiscoverLocalModelsNoDirCheck(fs) ==
    [models |-> Sorted(CollectModels([n \in DOMAIN fs |-> [fs[n] EXCEPT !.kind = "dir"]],
                                     GlobModels(fs))),
     printed |-> {},
     fs |-> fs]

\* discover_local_models deleting the matched entries that are no
\* directory.
DiscoverLocalModelsPruning(fs) ==
    [models |-> Sorted(CollectModels(fs, GlobModels(fs))),
     printed |-> {},
     fs |-> [n \in DOMAIN fs |->
                IF StartsWith(n, Prefix) /\ fs[n].kind = "file"
                THEN Absent ELSE fs[n]]]

\* The whole call: the list returned, the entries a message is printed
\* about (the function prints nothing) and the cache after it. A cache
\* directory that does not exist is a cache with no entry.
DiscoverLocalModels(fs) ==
    [models |-> Sorted(CollectModels(fs, GlobModels(fs))),
     printed |-> {},
     fs |-> fs]

\* list_mlx_models: the status printed for each discovered identifier.
ListMlxModels ==
    /\ pc = "idle"
    /\ LET d == DiscoverLocalModels(root)
            line(model) ==
                LET st == GetModelStatus(d.fs, model)
                IN  [id |-> model, status |-> st.status,
                     partial |-> Cardinality(IncompleteOf(st))]
        IN  /\ root' = d.fs
            /\ last' = [NoLast EXCEPT !.op = "list", !.models = d.models,
                                      !.printed = d.printed,
                                      !.listing = [i \in 1..Len(d.models) |->
                                                      line(d.models[i])]]
    /\ UNCHANGED <<pc, dl, codec>>

CallDiscoverLocalModels ==
    /\ pc = "idle"
    /\ LET d == DiscoverLocalModels(root)
        IN  /\ root' = d.fs
            /\ last' = [NoLast EXCEPT !.op = "discover", !.models = d.models,
                                      !.printed = d.printed]
    /\ UNCHANGED <<pc, dl, codec>>

\* int(model_arg): an optional sign and decimal digits, ValueError
\* otherwise.
DigitChars == <<"0", "1", "2", "3", "4", "5", "6", "7", "8", "9">>
IsDigit(c) == \E i \in 1..Len(DigitChars) : DigitChars[i] = c
DigitValue(c) == (CHOOSE i \in 1..Len(DigitChars) : DigitChars[i] = c) - 1
RECURSIVE DigitsValue(_)
DigitsValue(s) ==
    IF s = <<>> THEN 0
    ELSE DigitsValue(SubSeq(s, 1, Len(s) - 1)) * 10 + DigitValue(s[Len(s)])
Unsigned(s) == IF s # <<>> /\ Head(s) \in {"-", "+"} THEN Tail(s) ELSE s
IsInt(s) ==
    /\ Unsigned(s) # <<>>
    /\ \A i \in 1..Len(Unsigned(s)) : IsDigit(Unsigned(s)[i])
ToInt(s) ==
    IF s # <<>> /\ Head(s) = "-" THEN 0 - DigitsValue(Unsigned(s))
    ELSE DigitsValue(Unsigned(s))

\* str.lower() on the answers typed at the prompt.
LowerChar(c) == IF c = "Y" THEN "y" ELSE IF c = "N" THEN "n" ELSE c
Lower(s) == [i \in 1..Len(s) |-> LowerChar(s[i])]

\* The test of the answer that takes everything but "n" for a yes.
ConfirmedUnlessNo(confirm) == Lower(confirm) # <<"n">>

\* if confirm.lower() == 'y':
Confirmed(confirm) == Lower(confirm) = <<"y">>

\* elif command == "remove": model_arg is sys.argv[2], confirm is what
\* input() returns if the prompt is reached.
MainRemove(model_arg, confirm) ==
    /\ pc = "idle"
    /\ \E d \in {IF IsInt(model_arg) THEN DiscoverLocalModels(root)
                 ELSE [models |-> <<>>, printed |-> {}, fs |-> root]} :
        LET isNumber == IsInt(model_arg)
            index == IF isNumber THEN ToInt(model_arg) - 1 ELSE 0
            returnsEarly ==
                isNumber /\ (d.models = <<>> \/ ~(0 <= index /\ index < Len(d.models)))
            model_name == IF ~isNumber THEN model_arg
                          ELSE IF returnsEarly THEN <<>>
                          ELSE d.models[index + 1]
            done == [NoLast EXCEPT !.op = "main_remove", !.arg = model_arg,
                                   !.models = d.models, !.printed = d.printed]
        IN  IF returnsEarly
            THEN /\ root' = d.fs
                 /\ last' = done
            ELSE IF Confirmed(confirm)
            THEN \E outcome \in RmtreeOutcomes(ModelPath(d.fs, model_name)) :
                    LET r == RemoveModel(d.fs, model_name, outcome)
                    IN  /\ root' = r.fs
                        /\ last' = [done EXCEPT !.id = model_name,
                                                !.asked = TRUE, !.answer = confirm,
                                                !.called = TRUE, !.status = r.status,
                                                !.ret = IF r.ret THEN 1 ELSE 0]
            ELSE /\ root' = d.fs
                 /\ last' = [done EXCEPT !.id = model_name, !.asked = TRUE,
                                         !.answer = confirm]
    /\ UNCHANGED <<pc, dl, codec>>

\* What is typed after "remove", and at the prompt.
RemoveArgs ==
    {<<"0">>, <<"1">>, <<"2">>, <<"3">>} \cup ModelIds
Answers == {<<"y">>, <<"Y">>, <<"n">>, <<>>}

(***************************************************************************)
(* The codec applied to an identifier: encode, then decode.                *)
(***************************************************************************)
\* The characters of the organizations and names the codec is tried on.
CodecChars == {"a", "-", "/"}

RECURSIVE StringsUpTo(_)
StringsUpTo(n) ==
    IF n = 0 THEN {<<>>}
    ELSE LET shorter == StringsUpTo(n - 1)
         IN  shorter \cup {Append(s, c) : s \in shorter, c \in CodecChars}

CodecIdle == [phase |-> "none", org |-> <<>>, name |-> <<>>,
              dir |-> <<>>, decoded |-> <<>>]

CodecEncode ==
    /\ codec.phase = "input"
    /\ codec' = [codec EXCEPT !.phase = "encoded",
                              !.dir = Encode(codec.org \o Slash \o codec.name)]
    /\ UNCHANGED <<root, pc, dl, last>>

CodecDecode ==
    /\ codec.phase = "encoded"
    /\ codec' = [codec EXCEPT !.phase = "decoded", !.decoded = Decode(codec.dir)]
    /\ UNCHANGED <<root, pc, dl, last>>

(***************************************************************************)
(* Specifications.                                                         *)
(***************************************************************************)
\* The cache holds any layout when the program starts.
Init ==
    /\ root \in [RootNames -> Entries]
    /\ pc = "idle"
    /\ dl = DlIdle
    /\ last = NoLast
    /\ codec = CodecIdle

Next ==
    \/ \E id \in ModelIds : CallGetModelStatus(id)
    \/ \E id \in ModelIds : CallCleanIncompleteModel(id)
    \/ \E id \in ModelIds : CallRemoveModel(id)
    \/ \E id \in ModelIds, verify \in BOOLEAN, force \in BOOLEAN :
            DlStart(id, verify, force)
    \/ DlLoadCached
    \/ DlClean
    \/ DlFetch
    \/ DlLoadFetched

\* The steps of a call of download_model that is under way.
DlNext ==
    \/ DlLoadCached
    \/ DlClean
    \/ DlFetch
    \/ DlLoadFetched

Spec == Init /\ [][Next]_vars

\* The codec on every organization and name within the bound.
InitCodec ==
    /\ root = [n \in RootNames |-> Absent]
    /\ pc = "idle"
    /\ dl = DlIdle
    /\ last = NoLast
    /\ \E org \in StringsUpTo(MaxLen), name \in StringsUpTo(MaxLen) :
            codec = [CodecIdle EXCEPT !.phase = "input", !.org = org, !.name = name]

NextCodec ==
    \/ CodecEncode
    \/ CodecDecode

SpecCodec == InitCodec /\ [][NextCodec]_vars

\* The cache scanned, listed and removed from with the remove command.
InitDisc ==
    /\ root \in [DiscNames -> DiscEntries]
    /\ root[SoloDir] \in {Absent, EmptyDir}
    /\ root[RandomDir] \in {Absent, EmptyDir}
    /\ pc = "idle"
    /\ dl = DlIdle
    /\ last = NoLast
    /\ codec = CodecIdle

NextDisc ==
    \/ CallDiscoverLocalModels
    \/ ListMlxModels
    \/ \E id \in ModelIds : CallGetModelStatus(id)
    \/ \E model_arg \in RemoveArgs, confirm \in Answers : MainRemove(model_arg, confirm)

SpecDisc == InitDisc /\ [][NextDisc]_vars

(***************************************************************************)
(* Properties.                                                             *)
(***************************************************************************)
\* s contains sub as a substring ("sub in s").
Contains(s, sub) ==
    \E i \in 1..(Len(s) - Len(sub) + 1) : SubSeq(s, i, i + Len(sub) - 1) = sub

\* The entry the last operation was about, as the cache holds it now.
LastEntry == ModelPath(root, last.id)

HasPartialBlob(entry) == \E b \in entry.blobs : EndsWith(b, Marker)

\* C1: the status command classifies an entry by the first rule that
\* matches, in this order: no model directory, not_downloaded; no blobs
\* directory, no_blobs; a blob name ending in ".incomplete", incomplete
\* (also with a non-empty snapshots directory); a non-empty snapshots
\* directory, complete; otherwise unknown.
C1_ClassificationOrder ==
    last.op = "status" =>
        LET e == LastEntry
        IN  /\ e.kind = "absent" => last.status = "not_downloaded"
            /\ e.kind # "absent" /\ ~e.hasBlobs => last.status = "no_blobs"
            /\ e.hasBlobs /\ HasPartialBlob(e) => last.status = "incomplete"
            /\ e.hasBlobs /\ ~HasPartialBlob(e) /\ e.hasSnaps /\ e.snaps # {}
                    => last.status = "complete"
            /\ e.hasBlobs /\ ~HasPartialBlob(e) /\ ~(e.hasSnaps /\ e.snaps # {})
                    => last.status = "unknown"

\* An entry with a partial blob and a non-empty snapshots directory was
\* inspected.
C1_Witness ==
    /\ last.op = "status"
    /\ last.status = "incomplete"
    /\ LastEntry.snaps # {}

\* A blobs directory holding exactly one file, a partial one, and no
\* snapshots directory.
SinglePartial(entry) ==
    /\ entry.kind = "dir"
    /\ entry.hasBlobs
    /\ Cardinality(entry.blobs) = 1
    /\ HasPartialBlob(entry)
    /\ ~entry.hasSnaps

\* The first two steps of the sequence: status on a SinglePartial entry,
\* then clean of the same entry with no unlink failing.
E2E_StatusThenClean ==
    /\ last.op = "status"
    /\ SinglePartial(LastEntry)
    /\ last'.op = "clean"
    /\ last'.id = last.id
    /\ last'.failed = {}

\* The last two steps: that clean, then status of the same entry.
E2E_CleanThenStatus ==
    /\ last.op = "clean"
    /\ last.status = "incomplete"
    /\ Cardinality(last.files) = 1
    /\ last.failed = {}
    /\ LastEntry.blobs = {}
    /\ ~LastEntry.hasSnaps
    /\ last'.op = "status"
    /\ last'.id = last.id

E2E_FirstTwoSteps ==
    E2E_StatusThenClean =>
        /\ last.status = "incomplete"
        /\ last.files = LastEntry.blobs
        /\ last'.removed = last.files
        /\ last'.ret = 1
        /\ ModelPath(root', last.id) = [LastEntry EXCEPT !.blobs = {}]

\* C2 as claimed: on an entry whose blobs directory holds one file, a
\* partial one, and that has no snapshots directory, status reports
\* incomplete with that file, clean removes it and returns 1, and the
\* status after that is no_blobs.
C2_Original ==
    [][/\ E2E_FirstTwoSteps
       /\ E2E_CleanThenStatus => last'.status = "no_blobs"]_vars

\* C2 amended: the same sequence ends with status unknown: the blobs
\* directory is still there, empty, so it is neither no_blobs nor
\* incomplete, and there is no snapshot.
C2_EndToEnd ==
    [][/\ E2E_FirstTwoSteps
       /\ E2E_CleanThenStatus =>
            /\ LastEntry.hasBlobs
            /\ last'.status = "unknown"
            /\ last'.files = {}]_vars

\* The single partial blob has just been cleaned away.
C2_Witness ==
    /\ last.op = "clean"
    /\ last.status = "incomplete"
    /\ Cardinality(last.files) = 1
    /\ last.removed = last.files
    /\ last.ret = 1
    /\ LastEntry.hasBlobs
    /\ LastEntry.blobs = {}
    /\ ~LastEntry.hasSnaps

\* C3 as claimed: for an organization and a name without "/", decoding the
\* encoded directory name gives the identifier back whenever the name
\* holds no "--".
C3_Original ==
    (/\ codec.phase = "decoded"
     /\ ~Contains(codec.org, Slash)
     /\ ~Contains(codec.name, Slash)
     /\ ~Contains(codec.name, DashDash))
        => codec.decoded = codec.org \o Slash \o codec.name

\* The identifiers the round trip holds for.
Unambiguous(org, name) ==
    /\ ~Contains(org, Slash)
    /\ ~Contains(name, Slash)
    /\ ~Contains(name, DashDash)
    /\ ~Contains(org, DashDash)
    /\ ~EndsWith(org, Dash)

\* C3 amended: decoding the encoded directory name gives the identifier
\* back whenever neither part holds "/" or "--" and the organization does
\* not end with "-".
C3_RoundTrip ==
    (codec.phase = "decoded" /\ Unambiguous(codec.org, codec.name))
        => codec.decoded = codec.org \o Slash \o codec.name

\* A name with a dash in it went through the round trip.
C3_Witness ==
    /\ codec.phase = "decoded"
    /\ Unambiguous(codec.org, codec.name)
    /\ codec.org # <<>>
    /\ Contains(codec.name, Dash)
    /\ codec.decoded = codec.org \o Slash \o codec.name

\* C4 as claimed: clean on an incomplete entry with n partial files of
\* which k unlinks fail returns n - k.
C4_Original ==
    (last.op = "clean" /\ last.status = "incomplete")
        => last.ret = Cardinality(last.files) - Cardinality(last.failed)

\* C4 amended: clean returns True (1) on every incomplete entry, whatever
\* number of unlinks fail, and False (0) on every other entry; the n - k
\* files whose unlink did not fail are removed, and no count is returned.
C4_CleanResult ==
    last.op = "clean" =>
        /\ last.ret = (IF last.status = "incomplete" THEN 1 ELSE 0)
        /\ last.removed = last.files \ last.failed
        /\ last.failed \subseteq last.files
        /\ Cardinality(last.removed)
                = Cardinality(last.files) - Cardinality(last.failed)
        /\ LastEntry.blobs \cap last.removed = {}

\* Two partial files, one unlink failed, one succeeded.
C4_Witness ==
    /\ last.op = "clean"
    /\ last.status = "incomplete"
    /\ Cardinality(last.files) = 2
    /\ Cardinality(last.failed) = 1
    /\ last.ret = 1

\* C5: clean on an entry whose status is not incomplete returns False (0)
\* and leaves the whole cache as it was.
C5_CleanNoOp ==
    [][(last'.op = "clean" /\ last'.status # "incomplete")
        => (last'.ret = 0 /\ last'.removed = {} /\ root' = root)]_vars

\* clean was called on a complete entry that holds blobs.
C5_Witness ==
    /\ last.op = "clean"
    /\ last.status = "complete"
    /\ last.ret = 0
    /\ LastEntry.blobs # {}

\* C6: on an incomplete entry clean tries to unlink every partial file; a
\* failing unlink stops nothing, and every file whose unlink did not fail
\* is gone afterwards, while the failing ones are still there.
C6_ContinueOnError ==
    (last.op = "clean" /\ last.status = "incomplete") =>
        /\ last.removed \cup last.failed = last.files
        /\ last.removed \cap last.failed = {}
        /\ LastEntry.blobs \cap last.removed = {}
        /\ last.failed \subseteq LastEntry.blobs

\* One unlink failed and another file was removed all the same.
C6_Witness ==
    /\ last.op = "clean"
    /\ last.status = "incomplete"
    /\ last.failed # {}
    /\ last.removed # {}

\* C7: remove on a not_downloaded entry returns False and changes nothing
\* in the cache.
C7_RemoveAbsent ==
    [][(last'.op = "remove" /\ last'.status = "not_downloaded")
        => (last'.ret = 0 /\ root' = root)]_vars

\* remove was called on an entry that is not in the cache.
C7_Witness ==
    /\ last.op = "remove"
    /\ last.status = "not_downloaded"
    /\ last.ret = 0
    /\ LastEntry.kind = "absent"

\* C8: remove on an entry that is in the cache, whatever its status:
\* when it returns True the model directory is gone and the next status
\* is not_downloaded; when the rmtree fails it returns False and what it
\* deleted stays deleted; the other models' directories are untouched.
C8_RemoveWhole ==
    [][/\ (last'.op = "remove" /\ last'.status # "not_downloaded") =>
            LET key == DirName(last'.id)
            IN  /\ \A n \in RootNames \ {key} : root'[n] = root[n]
                /\ last'.ret \in {0, 1}
                /\ last'.ret = 1 => root'[key] = Absent
                /\ last'.ret = 0 =>
                        /\ root'[key].kind = root[key].kind
                        /\ root'[key].blobs \subseteq root[key].blobs
                        /\ root'[key].snaps \subseteq root[key].snaps
       /\ (last.op = "remove" /\ last.ret = 1
            /\ last'.op = "status" /\ last'.id = last.id)
            => last'.status = "not_downloaded"]_vars

\* An incomplete model was removed while the other model is in the cache.
C8_Witness ==
    /\ last.op = "remove"
    /\ last.status = "incomplete"
    /\ last.ret = 1
    /\ LastEntry.kind = "absent"
    /\ \E n \in RootNames : root[n].kind = "dir"

\* C9: download_model returns False exactly when snapshot_download failed
\* or the load after it failed, True otherwise, whatever the status after
\* the download; no failure of either leaves download_model as an
\* exception.
C9_DownloadResult ==
    /\ pc # "raised"
    /\ last.op = "download" =>
            last.ret = (IF last.fetchFailed \/ last.verifyFailed THEN 0 ELSE 1)

\* A download that returned True although the status after it was not
\* complete.
C9_Witness ==
    /\ last.op = "download"
    /\ last.ret = 1
    /\ last.finalStatus \notin {"none", "complete"}

\* What the classifier calls complete.
IsComplete(entry) ==
    /\ entry.hasBlobs
    /\ ~HasPartialBlob(entry)
    /\ entry.hasSnaps
    /\ entry.snaps # {}

\* The arguments of the call of download_model that a step starts.
StartedCall == IF pc' = "idle" THEN last' ELSE dl'

\* C10: download_model with verify and force both false on a complete
\* entry returns True from its first inspection: no load, no
\* snapshot_download, no clean, and the cache unchanged.
C10_SkipComplete ==
    [][(/\ pc = "idle"
        /\ pc' # "idle" \/ last'.op = "download"
        /\ ~StartedCall.verify
        /\ ~StartedCall.force
        /\ IsComplete(ModelPath(root, StartedCall.id)))
        => /\ pc' = "idle"
           /\ last'.ret = 1
           /\ last'.log = <<>>
           /\ root' = root]_vars

\* Such a call has returned.
C10_Witness ==
    /\ last.op = "download"
    /\ IsComplete(LastEntry)
    /\ ~last.verify
    /\ ~last.force
    /\ last.ret = 1
    /\ last.log = <<>>

\* How often an event is in a log, and where it is first.
RECURSIVE Count(_, _)
Count(log, ev) ==
    IF log = <<>> THEN 0
    ELSE (IF Head(log) = ev THEN 1 ELSE 0) + Count(Tail(log), ev)

Has(log, ev) == \E i \in 1..Len(log) : log[i] = ev

Before(log, a, b) ==
    \A j \in 1..Len(log) : log[j] = b => \E i \in 1..(j - 1) : log[i] = a

\* The log of the call of download_model that a step belongs to, after it.
LogAfter == IF pc' = "idle" THEN last'.log ELSE dl'.log

\* C11 as claimed: a call with verify and without force that finds the
\* entry complete and whose load fails does not return False at that
\* point; it calls snapshot_download and then load once more.
C11_Original ==
    (last.op = "download" /\ last.log # <<>> /\ last.log[1] = "load") =>
        \/ last.log = <<"load">> /\ last.ret = 1
        \/ last.log = <<"load", "fetch", "load">>

\* C11 amended: such a call goes on to snapshot_download, and to load
\* once more if snapshot_download succeeded (if it failed the call
\* returns False at once); within one call snapshot_download is called
\* at most once and load at most twice, every step of a call adds one
\* call to at most four, and a call under way can always take its next
\* step, so it ends, with True or False.
C11_Reverify ==
    /\ [](/\ pc \in {"idle", "load_cached", "clean", "fetch", "load_fetched"}
          /\ pc # "idle" => ENABLED DlNext
          /\ \A log \in {dl.log, last.log} :
                /\ Count(log, "fetch") <= 1
                /\ Count(log, "load") <= 2
                /\ Len(log) <= 4
          /\ pc = "load_cached" =>
                /\ dl.log = <<>>
                /\ dl.status = "complete"
                /\ dl.verify
                /\ ~dl.force
          /\ (pc # "idle" /\ dl.log # <<>> /\ dl.log[1] = "load") =>
                \/ pc = "fetch" /\ dl.log = <<"load">>
                \/ pc = "load_fetched" /\ dl.log = <<"load", "fetch">>
          /\ (last.op = "download" /\ last.log # <<>> /\ last.log[1] = "load") =>
                \/ last.log = <<"load">> /\ last.ret = 1
                \/ /\ last.log = <<"load", "fetch">>
                   /\ last.fetchFailed
                   /\ last.ret = 0
                \/ /\ last.log = <<"load", "fetch", "load">>
                   /\ ~last.fetchFailed
                   /\ last.ret = (IF last.verifyFailed THEN 0 ELSE 1))
    /\ [][pc # "idle" =>
            /\ Len(LogAfter) = Len(dl.log) + 1
            /\ pc' # pc]_vars

\* A complete entry failed its verification, was downloaded again and
\* then loaded.
C11_Witness ==
    /\ last.op = "download"
    /\ last.log = <<"load", "fetch", "load">>
    /\ last.ret = 1

C15_FetchArguments ==
    /\ \A c \in {dl, last} :
            Has(c.log, "fetch") => c.fetchArgs = [resume |-> TRUE, force |-> c.force]
    /\ (pc # "idle" /\ dl.force) =>
            /\ pc # "load_cached"
            /\ Before(dl.log, "fetch", "load")
    /\ (last.op = "download" /\ last.force) =>
            /\ Count(last.log, "fetch") = 1
            /\ Before(last.log, "fetch", "load")

\* A forced download of a complete entry has called snapshot_download.
C15_Witness ==
    /\ pc = "load_fetched"
    /\ dl.force
    /\ dl.status = "complete"
    /\ dl.fetchArgs = [resume |-> TRUE, force |-> TRUE]
    /\ dl.log = <<"fetch">>

\* C16: the partial files that get_model_status reports for an entry are
\* exactly the entries of its blobs directory whose name ends with
\* ".incomplete", and the status is incomplete exactly when there is one.
\* (With any other status the third value returned is not the partial
\* files: it is every blob for complete and unknown, and empty for
\* no_blobs and not_downloaded.)
C16_IncompleteFiles ==
    last.op = "status" =>
        LET e == LastEntry
            marked == {b \in e.blobs : EndsWith(b, Marker)}
            st == [status |-> last.status, files |-> last.files]
        IN  /\ IncompleteOf(st) = marked
            /\ IncompleteOf(st) \subseteq e.blobs
            /\ last.status = "incomplete" <=> marked # {}
            /\ last.status \in {"complete", "unknown"} => last.files = e.blobs
            /\ last.status \in {"no_blobs", "not_downloaded"} => last.files = {}

\* An entry with a partial and a whole blob was inspected.
C16_Witness ==
    /\ last.op = "status"
    /\ last.status = "incomplete"
    /\ last.files # {}
    /\ last.files # LastEntry.blobs

\* C18: clean_incomplete_model unlinks only blobs whose name ends with
\* ".incomplete": every other blob, the blobs directory, the snapshots
\* directory and the other models are as before; and after a clean of an
\* incomplete entry in which no unlink failed, the next status of that
\* entry is not incomplete.
C18_CleanFrame ==
    [][/\ last'.op = "clean" =>
            LET key == DirName(last'.id)
            IN  /\ \A n \in (DOMAIN root) \ {key} : root'[n] = root[n]
                /\ DOMAIN root' = DOMAIN root
                /\ root'[key] = [root[key] EXCEPT !.blobs = @ \ last'.removed]
                /\ \A b \in last'.removed : EndsWith(b, Marker)
       /\ (/\ last.op = "clean"
           /\ last.status = "incomplete"
           /\ last.failed = {}
           /\ last'.op = "status"
           /\ last'.id = last.id)
            => last'.status # "incomplete"]_vars

\* An incomplete entry with a whole blob and a snapshot was cleaned, no
\* unlink failing.
C18_Witness ==
    /\ last.op = "clean"
    /\ last.status = "incomplete"
    /\ last.failed = {}
    /\ last.removed # {}
    /\ LastEntry.blobs # {}
    /\ LastEntry.snaps # {}

\* The entries of the cache that discover_local_models takes for a model:
\* a directory whose name is "models--" and then at least two parts with
\* "--" between them.
IsModelDir(fs, n) ==
    /\ fs[n].kind = "dir"
    /\ StartsWith(n, Prefix)
    /\ Contains(SubSeq(n, Len(Prefix) + 1, Len(n)), DashDash)

\* The entries that are there and are not taken for a model.
Skipped(fs) == {n \in DOMAIN fs : fs[n].kind # "absent" /\ ~IsModelDir(fs, n)}

\* The list holds the decoded name of every model directory, once for each
\* directory, and nothing else, in the order of str.
ListsModelDirs(fs, models) ==
    /\ \A n \in DOMAIN fs : IsModelDir(fs, n) => Has(models, Decode(n))
    /\ \A i \in 1..Len(models) :
        Count(models, models[i]) =
            Cardinality({n \in DOMAIN fs : IsModelDir(fs, n) /\ Decode(n) = models[i]})
    /\ \A i, j \in 1..Len(models) : i < j => ~StrLess(models[j], models[i])

C14_RemoveConfirmed ==
    [][last'.op = "main_remove" =>
        /\ last'.called => last'.asked /\ last'.answer \in {<<"y">>, <<"Y">>}
        /\ root' # root => last'.called
        /\ (last'.asked /\ last'.answer \notin {<<"y">>, <<"Y">>}) =>
                ~last'.called /\ root' = root
        /\ (/\ IsInt(last'.arg)
            /\ \/ last'.models = <<>>
               \/ ToInt(last'.arg) < 1
               \/ ToInt(last'.arg) > Len(last'.models))
            => ~last'.asked /\ ~last'.called /\ root' = root]_vars

\* The second model of the list was removed after the answer "Y".
C14_Witness ==
    /\ last.op = "main_remove"
    /\ last.arg = <<"2">>
    /\ last.answer = <<"Y">>
    /\ last.called
    /\ last.ret = 1
    /\ last.id = FooId
    /\ LastEntry = Absent

\* C17: get_model_status and discover_local_models change nothing in the
\* cache, and a call repeated with the same argument on the same cache
\* returns what the call before it returned, whatever was done earlier.
C17_ReadOnly ==
    [][/\ last'.op \in {"status", "discover"} => root' = root
       /\ (last.op = "status" /\ last'.op = "status" /\ last'.id = last.id)
            => last' = last
       /\ (last.op = "discover" /\ last'.op = "discover") => last' = last
       /\ (last.op = "main_remove" /\ last.called /\ last'.op = "discover")
            => ListsModelDirs(root, last'.models)
       /\ (last.op = "main_remove" /\ last.called /\ last.ret = 1
           /\ last'.op = "status" /\ last'.id = last.id)
            => last'.status = "not_downloaded"]_vars

\* The cache was scanned with a plain file among the matched entries.
C17_Witness ==
    /\ last.op = "discover"
    /\ last.models # <<>>
    /\ \E n \in DOMAIN root : StartsWith(n, Prefix) /\ root[n].kind = "file"

\* C19 as stated: every identifier that list_mlx_models gets from
\* discover_local_models has a status other than not_downloaded.
C19_Original ==
    last.op = "list" =>
        \A i \in 1..Len(last.listing) : last.listing[i].status # "not_downloaded"

\* C19: an identifier discovered from a directory whose name has exactly
\* two parts after "models--" encodes back to the name of that directory,
\* and its status in the list is not not_downloaded.
C19_Agree ==
    last.op = "list" =>
        \A n \in DOMAIN root :
            (/\ IsModelDir(root, n)
             /\ Len(Split(SubSeq(n, Len(Prefix) + 1, Len(n)), DashDash)) = 2)
            => /\ Encode(Decode(n)) = n
               /\ \E i \in 1..Len(last.listing) : last.listing[i].id = Decode(n)
               /\ \A i \in 1..Len(last.listing) :
                    last.listing[i].id = Decode(n)
                        => last.listing[i].status # "not_downloaded"

\* Two models were listed, one with a partial file.
C19_Witness ==
    /\ last.op = "list"
    /\ Len(last.listing) = 2
    /\ last.listing[1] = [id |-> BarId, status |-> "incomplete", partial |-> 1]
    /\ last.listing[2].id = FooId
    /\ last.listing[2].status = "no_blobs"

====
